---- MODULE Spec2Model ----
(***************************************************************************)
(* Freelance tax estimator: the tax-computation engine of                  *)
(* src/tax_calculator.py over the reference data of                        *)
(* src/data/ca_tax_data.py, and the caller's use of it in src/app.py.      *)
(*                                                                         *)
(* Number representation.  The program computes in binary floating point   *)
(* on decimal amounts.  The model computes the same expressions in exact   *)
(* decimal fixed point:                                                    *)
(*   - a money amount is an integer number of half-cents (200 to the       *)
(*     dollar), the finest grain the program produces outside a product    *)
(*     (cpp_contribution * 0.5 of a whole number of cents);                *)
(*   - a rate is an integer number of ten-thousandths (0.145 is 1450);     *)
(*   - a product money * rate is exact as a pair [q, f]: q half-cents plus *)
(*     f ten-thousandths of a half-cent, 0 <= f < 10000;                   *)
(*   - round(x, 2) rounds an exact value to whole cents, ties to even,     *)
(*     which is what Python's round does on a value it holds exactly.      *)
(* The representation error of binary floating point is not modelled.      *)
(***************************************************************************)
EXTENDS Integers, Sequences, FiniteSets, TLC

VARIABLES
    profile,   \* the bracket table and credit the engine functions are called with
    fn,        \* the function of the latest call, "none" before the first one
    args,      \* the arguments of the latest call
    ret,       \* what the latest call returned (NoValue when it raised)
    raised,    \* the exception the latest call raised, "" when it returned
    tax_data,  \* the module-level tables of data.ca_tax_data, as the functions read them
    calls      \* the calls of calculate_tax_breakdown a caller made in a row, with outcomes

vars == <<profile, fn, args, ret, raised, tax_data, calls>>

\* ------------------------------------------------------------------ numbers

\* float('inf'), the threshold of every table's last bracket.
Inf == 2147483647

\* Python's None; also the value of ret when nothing was returned.
NoValue == [none |-> TRUE]

Min(a, b) == IF a < b THEN a ELSE b

Max(a, b) == IF a > b THEN a ELSE b

\* A dollar amount of the reference data (an integer) as half-cents.
Dollars(d) == IF d = Inf THEN Inf ELSE d * 200

\* An integer number of half-cents as an exact value.
Exact(m) == [q |-> m, f |-> 0]

\* money * rate, exact: m half-cents (m >= 0) times r ten-thousandths.
\* Split so that no intermediate exceeds 32 bits.
MulRate(m, r) ==
    LET lo == (m % 10000) * r
    IN  [q |-> (m \div 10000) * r + (lo \div 10000), f |-> lo % 10000]

ExAdd(a, b) ==
    LET f == a.f + b.f
    IN  [q |-> a.q + b.q + (f \div 10000), f |-> f % 10000]

ExSub(a, b) ==
    LET f == a.f - b.f
    IN  IF f >= 0 THEN [q |-> a.q - b.q, f |-> f]
                  ELSE [q |-> a.q - b.q - 1, f |-> f + 10000]

\* a <= b on exact values.
ExLeq(a, b) == a.q < b.q \/ (a.q = b.q /\ a.f <= b.f)

\* max(0, x) on an exact value.
ExMax0(a) == IF a.q < 0 THEN Exact(0) ELSE a

\* round(x, 2) of an exact value x >= 0: the nearest whole number of cents,
\* a tie going to the even cent; the result in half-cents.
Round2(a) ==
    LET k   == a.q \div 2
        rem == (a.q % 2) * 10000 + a.f
    IN  IF rem > 10000 THEN 2 * (k + 1)
        ELSE IF rem < 10000 THEN 2 * k
        ELSE IF k % 2 = 0 THEN 2 * k ELSE 2 * (k + 1)

\* ------------------------------------------------------------ reference data

\* The tables as data/ca_tax_data.py defines them: the state of the module
\* after import.  Thresholds and amounts in dollars, rates in ten-thousandths.
ca_tax_data ==
    [ FEDERAL_TAX_BRACKETS |->
        << <<57375, 1450>>, <<114750, 2050>>, <<177882, 2600>>, <<253414, 2900>>,
           <<Inf, 3300>> >>,

      PROVINCIAL_TAX_BRACKETS |->
        [ AB |-> << <<60000, 800>>, <<151234, 1000>>, <<181481, 1200>>,
                    <<241974, 1300>>, <<362961, 1400>>, <<Inf, 1500>> >>,
          BC |-> << <<49279, 506>>, <<98560, 770>>, <<113158, 1050>>,
                    <<137407, 1229>>, <<186306, 1470>>, <<259829, 1680>>,
                    <<Inf, 2050>> >>,
          MB |-> << <<47564, 1080>>, <<101200, 1275>>, <<Inf, 1740>> >>,
          NB |-> << <<51306, 940>>, <<102614, 1400>>, <<190060, 1600>>,
                    <<Inf, 1950>> >>,
          NL |-> << <<44192, 870>>, <<88382, 1450>>, <<157792, 1580>>,
                    <<220910, 1780>>, <<282214, 1980>>, <<564429, 2080>>,
                    <<1128858, 2130>>, <<Inf, 2180>> >>,
          NS |-> << <<30507, 879>>, <<61015, 1495>>, <<95883, 1667>>,
                    <<154650, 1750>>, <<Inf, 2100>> >>,
          NT |-> << <<51964, 590>>, <<103930, 860>>, <<168967, 1220>>,
                    <<Inf, 1405>> >>,
          NU |-> << <<54707, 400>>, <<109413, 700>>, <<177881, 900>>,
                    <<Inf, 1150>> >>,
          ON |-> << <<52886, 505>>, <<105775, 915>>, <<150000, 1116>>,
                    <<220000, 1216>>, <<Inf, 1316>> >>,
          PE |-> << <<33328, 950>>, <<64656, 1347>>, <<105000, 1660>>,
                    <<140000, 1762>>, <<Inf, 1900>> >>,
          QC |-> << <<53255, 1400>>, <<106495, 1900>>, <<129590, 2400>>,
                    <<Inf, 2575>> >>,
          SK |-> << <<53463, 1050>>, <<152750, 1250>>, <<Inf, 1450>> >>,
          YT |-> << <<57375, 640>>, <<114750, 900>>, <<177882, 1090>>,
                    <<500000, 1280>>, <<Inf, 1500>> >> ],

      BASIC_PERSONAL_AMOUNT |->
        [ FEDERAL |-> 16129, AB |-> 22323, BC |-> 12399, MB |-> 16194,
          NB |-> 12891, NL |-> 10839, NS |-> 9419, NT |-> 15810, NU |-> 17788,
          ON |-> 12747, PE |-> 12500, QC |-> 18055, SK |-> 18991, YT |-> 15000 ],

      CPP_DATA |->
        [ EXEMPTION_AMOUNT |-> 3500,
          YMPE_CEILING |-> 71300,
          SELF_EMPLOYED_RATE_BASE |-> 1190,
          YAMPE_CEILING |-> 81200,
          SELF_EMPLOYED_RATE_CPP2 |-> 800 ] ]

\* The tables as a function body reads them: the module's globals at the time
\* of the call.
FEDERAL_TAX_BRACKETS == tax_data.FEDERAL_TAX_BRACKETS

PROVINCIAL_TAX_BRACKETS == tax_data.PROVINCIAL_TAX_BRACKETS

BASIC_PERSONAL_AMOUNT == tax_data.BASIC_PERSONAL_AMOUNT

CPP_DATA == tax_data.CPP_DATA

\* dict.get(key, default) on a table of the reference data.
Get(table, key, default) == IF key \in DOMAIN table THEN table[key] ELSE default

\* ------------------------------------------------------------------- engine

\* The mutant of BracketWalk that never advances previous_threshold: every
\* band is measured from 0, so income above a threshold is taxed again.
RECURSIVE BracketWalkFromZero(_, _, _, _, _)
BracketWalkFromZero(brackets, i, remaining_income, previous_threshold, total_tax) ==
    IF i > Len(brackets) THEN total_tax
    ELSE
        LET threshold == Dollars(brackets[i][1])
            rate == brackets[i][2]
            bracket_income ==
                IF threshold = Inf THEN remaining_income
                ELSE Min(remaining_income, threshold)
            taxed == bracket_income > 0
            total == IF taxed THEN ExAdd(total_tax, MulRate(bracket_income, rate))
                     ELSE total_tax
            remaining == IF taxed THEN remaining_income - bracket_income
                         ELSE remaining_income
        IN  IF remaining <= 0 THEN total
            ELSE BracketWalkFromZero(brackets, i + 1, remaining, 0, total)

\* The loop of calculate_marginal_tax from bracket i on: total_tax before the
\* credit.  threshold - previous_threshold is inf for the last bracket, so
\* min(remaining_income, inf) is remaining_income.
RECURSIVE BracketWalk(_, _, _, _, _)
BracketWalk(brackets, i, remaining_income, previous_threshold, total_tax) ==
    IF i > Len(brackets) THEN total_tax
    ELSE
        LET threshold == Dollars(brackets[i][1])
            rate == brackets[i][2]
            bracket_income ==
                IF threshold = Inf THEN remaining_income
                ELSE Min(remaining_income, threshold - previous_threshold)
            taxed == bracket_income > 0
            total == IF taxed THEN ExAdd(total_tax, MulRate(bracket_income, rate))
                     ELSE total_tax
            remaining == IF taxed THEN remaining_income - bracket_income
                         ELSE remaining_income
        IN  IF remaining <= 0 THEN total
            ELSE BracketWalk(brackets, i + 1, remaining, threshold, total)

\* The mutant of get_marginal_rate whose test is income >= threshold: an
\* income equal to a threshold gets the next band's rate.
RECURSIVE get_marginal_rate_upper(_, _, _)
get_marginal_rate_upper(income, brackets, i) ==
    IF i > Len(brackets) THEN brackets[Len(brackets)][2]
    ELSE IF Dollars(brackets[i][1]) # Inf /\ income >= Dollars(brackets[i][1])
         THEN get_marginal_rate_upper(income, brackets, i + 1)
         ELSE brackets[i][2]

\* The loop of get_marginal_rate from bracket i on.  income > inf is false.
RECURSIVE get_marginal_rate_from(_, _, _)
get_marginal_rate_from(income, brackets, i) ==
    IF i > Len(brackets) THEN brackets[Len(brackets)][2]
    ELSE IF Dollars(brackets[i][1]) # Inf /\ income > Dollars(brackets[i][1])
         THEN get_marginal_rate_from(income, brackets, i + 1)
         ELSE brackets[i][2]

\* get_marginal_rate(income, brackets), in ten-thousandths.
get_marginal_rate(income, brackets) == get_marginal_rate_from(income, brackets, 1)

\* The mutant of calculate_marginal_tax that values the credit at the
\* taxpayer's marginal rate instead of the lowest rate.
calculate_marginal_tax_credit_at_marginal_rate(taxable_income, brackets, bpa_amount) ==
    Round2(ExMax0(ExSub(BracketWalk(brackets, 1, taxable_income, 0, Exact(0)),
                        MulRate(Dollars(bpa_amount),
                                get_marginal_rate(taxable_income, brackets)))))

\* The mutant of calculate_marginal_tax that adds the credit to the tax
\* instead of subtracting it.
calculate_marginal_tax_credit_added(taxable_income, brackets, bpa_amount) ==
    Round2(ExMax0(ExAdd(BracketWalk(brackets, 1, taxable_income, 0, Exact(0)),
                        MulRate(Dollars(bpa_amount), brackets[1][2]))))

\* The mutant of calculate_marginal_tax without the max(0, ...) floor.
calculate_marginal_tax_unclamped(taxable_income, brackets, bpa_amount) ==
    Round2(ExSub(BracketWalk(brackets, 1, taxable_income, 0, Exact(0)),
                 MulRate(Dollars(bpa_amount), brackets[1][2])))

\* calculate_marginal_tax(taxable_income, brackets, bpa_amount), in half-cents.
calculate_marginal_tax(taxable_income, brackets, bpa_amount) ==
    LET lowest_rate == brackets[1][2]
        bpa_tax_credit == MulRate(Dollars(bpa_amount), lowest_rate)
        total_tax == BracketWalk(brackets, 1, taxable_income, 0, Exact(0))
        final_tax_payable == ExMax0(ExSub(total_tax, bpa_tax_credit))
    IN  Round2(final_tax_payable)

\* The mutant of total_cpp that forgets the exemption.
total_cpp_no_exemption(net_income) ==
    LET YMPE == Dollars(CPP_DATA.YMPE_CEILING)
        YAMPE == Dollars(CPP_DATA.YAMPE_CEILING)
        tier1 == MulRate(Min(net_income, YMPE), CPP_DATA.SELF_EMPLOYED_RATE_BASE)
    IN  IF net_income > YMPE
        THEN ExAdd(tier1, MulRate(Min(net_income, YAMPE) - YMPE,
                                  CPP_DATA.SELF_EMPLOYED_RATE_CPP2))
        ELSE tier1

\* The mutant of total_cpp whose tier 2 overwrites the tier-1 contribution
\* instead of adding to it.
total_cpp_tier2_overwrites(net_income) ==
    LET EXEMPTION == Dollars(CPP_DATA.EXEMPTION_AMOUNT)
        YMPE == Dollars(CPP_DATA.YMPE_CEILING)
        YAMPE == Dollars(CPP_DATA.YAMPE_CEILING)
    IN  IF net_income > YMPE
        THEN MulRate(Min(net_income, YAMPE) - YMPE, CPP_DATA.SELF_EMPLOYED_RATE_CPP2)
        ELSE MulRate(Max(0, Min(net_income, YMPE) - EXEMPTION),
                     CPP_DATA.SELF_EMPLOYED_RATE_BASE)

\* The unrounded contribution of calculate_cpp_self_employed (total_cpp).
total_cpp(net_income) ==
    LET EXEMPTION == Dollars(CPP_DATA.EXEMPTION_AMOUNT)
        YMPE == Dollars(CPP_DATA.YMPE_CEILING)
        YAMPE == Dollars(CPP_DATA.YAMPE_CEILING)
        RATE_BASE == CPP_DATA.SELF_EMPLOYED_RATE_BASE
        RATE_CPP2 == CPP_DATA.SELF_EMPLOYED_RATE_CPP2
        contributory_earnings_base == Max(0, Min(net_income, YMPE) - EXEMPTION)
        tier1 == MulRate(contributory_earnings_base, RATE_BASE)
    IN  IF net_income > YMPE
        THEN ExAdd(tier1, MulRate(Min(net_income, YAMPE) - YMPE, RATE_CPP2))
        ELSE tier1

\* calculate_cpp_self_employed(net_income), in half-cents.
calculate_cpp_self_employed(net_income) == Round2(total_cpp(net_income))

\* round(100 * total_tax_paid / net_income, 2) for whole-cent amounts, in
\* hundredths of a percent: the quotient digit by digit, then ties to even.
RECURSIVE PercentDigits(_, _, _, _)
PercentDigits(quotient, remainder, divisor, digits) ==
    IF digits = 0
    THEN IF 2 * remainder > divisor THEN quotient + 1
         ELSE IF 2 * remainder < divisor THEN quotient
         ELSE IF quotient % 2 = 0 THEN quotient ELSE quotient + 1
    ELSE PercentDigits(quotient * 10 + ((remainder * 10) \div divisor),
                       (remainder * 10) % divisor, divisor, digits - 1)

Percent2(total_tax_paid, net_income) ==
    LET paid == total_tax_paid \div 2
        net == net_income \div 2
    IN  PercentDigits(paid \div net, paid % net, net, 4)

\* The mutant of the province lookup that consults BASIC_PERSONAL_AMOUNT's
\* keys, which also hold 'FEDERAL'.
ProvincialBracketsByCreditKey(province_code) ==
    IF province_code \in DOMAIN BASIC_PERSONAL_AMOUNT
    THEN Get(PROVINCIAL_TAX_BRACKETS, province_code, FEDERAL_TAX_BRACKETS)
    ELSE << >>

\* PROVINCIAL_TAX_BRACKETS.get(province_code, [])
ProvincialBrackets(province_code) == Get(PROVINCIAL_TAX_BRACKETS, province_code, << >>)

\* The mutant of NetIncome without the max(0, ...) floor.
NetIncomeUnfloored(gross_income, total_deductible_expenses) ==
    Round2(Exact(gross_income)) - Round2(Exact(total_deductible_expenses))

\* Steps 1 and 2 of calculate_tax_breakdown: the rounded inputs and net_income.
NetIncome(gross_income, total_deductible_expenses) ==
    LET income_rounded == Round2(Exact(gross_income))
        expenses_rounded == Round2(Exact(total_deductible_expenses))
    IN  Round2(Exact(Max(0, income_rounded - expenses_rounded)))

\* The mutant of CppDeduction that deducts the whole contribution.
CppDeductionWhole(cpp_contribution) == cpp_contribution

\* cpp_deduction = cpp_contribution * 0.5
CppDeduction(cpp_contribution) == MulRate(cpp_contribution, 5000).q

\* Steps 3 to 9 of calculate_tax_breakdown for a registered province: its
\* local variables.  Money in half-cents, rates in hundredths of a percent.
\* (marginal_federal_rate + marginal_provincial_rate) * 100 has two decimals.
BreakdownLocals(net_income, province_code) ==
    LET cpp_contribution == calculate_cpp_self_employed(net_income)
        cpp_deduction == CppDeduction(cpp_contribution)
        taxable_income == Max(0, net_income - cpp_deduction)
        fed_bpa == BASIC_PERSONAL_AMOUNT.FEDERAL
        federal_tax ==
            calculate_marginal_tax(taxable_income, FEDERAL_TAX_BRACKETS, fed_bpa)
        provincial_brackets == ProvincialBrackets(province_code)
        prov_bpa == Get(BASIC_PERSONAL_AMOUNT, province_code, 0)
        provincial_tax ==
            calculate_marginal_tax(taxable_income, provincial_brackets, prov_bpa)
        total_income_tax == federal_tax + provincial_tax
        total_remittance == total_income_tax + cpp_contribution
        take_home_pay == net_income - total_remittance
        total_tax_paid == federal_tax + provincial_tax + cpp_contribution
        average_tax_rate ==
            IF net_income > 0 THEN Percent2(total_tax_paid, net_income) ELSE 0
        marginal_federal_rate == get_marginal_rate(taxable_income, FEDERAL_TAX_BRACKETS)
        marginal_provincial_rate == get_marginal_rate(taxable_income, provincial_brackets)
        marginal_tax_rate == marginal_federal_rate + marginal_provincial_rate
    IN  [ net_income |-> net_income,
          cpp_contribution |-> cpp_contribution,
          cpp_deduction |-> cpp_deduction,
          taxable_income |-> taxable_income,
          federal_tax |-> federal_tax,
          provincial_tax |-> provincial_tax,
          total_income_tax |-> total_income_tax,
          total_remittance |-> total_remittance,
          take_home_pay |-> take_home_pay,
          total_tax_paid |-> total_tax_paid,
          average_tax_rate |-> average_tax_rate,
          marginal_federal_rate |-> marginal_federal_rate,
          marginal_provincial_rate |-> marginal_provincial_rate,
          marginal_tax_rate |-> marginal_tax_rate ]

\* The mutant of ReturnedDict from before the two rates were added to it.
ReturnedDictWithoutRates(locals) ==
    [ k \in { "net_income", "cpp_contribution", "cpp_deduction", "taxable_income",
              "federal_tax", "provincial_tax", "total_income_tax",
              "total_remittance", "take_home_pay", "total_tax_paid" } |-> locals[k] ]

\* The dict calculate_tax_breakdown returns: twelve of its locals.
ReturnedDict(locals) ==
    [ net_income |-> locals.net_income,
      cpp_contribution |-> locals.cpp_contribution,
      cpp_deduction |-> locals.cpp_deduction,
      taxable_income |-> locals.taxable_income,
      federal_tax |-> locals.federal_tax,
      provincial_tax |-> locals.provincial_tax,
      total_income_tax |-> locals.total_income_tax,
      total_remittance |-> locals.total_remittance,
      take_home_pay |-> locals.take_home_pay,
      total_tax_paid |-> locals.total_tax_paid,
      average_tax_rate |-> locals.average_tax_rate,
      marginal_tax_rate |-> locals.marginal_tax_rate ]

\* The mutant of TaxDataAfterCall in which the bracket loop consumes the
\* province's table with brackets.pop(0), keeping its last bracket.
TaxDataAfterPoppingBracket(data, province_code) ==
    IF /\ province_code \in DOMAIN data.PROVINCIAL_TAX_BRACKETS
       /\ Len(data.PROVINCIAL_TAX_BRACKETS[province_code]) > 1
    THEN [data EXCEPT !.PROVINCIAL_TAX_BRACKETS[province_code] = Tail(@)]
    ELSE data

\* The module-level tables after a call of calculate_tax_breakdown: it and
\* the functions it calls only read them (.get, indexing, iteration).
TaxDataAfterCall(data, province_code) == data

\* calculate_tax_breakdown(gross_income, total_deductible_expenses,
\* province_code): what it returns and what it raises.
calculate_tax_breakdown(gross_income, total_deductible_expenses, province_code) ==
    IF Len(ProvincialBrackets(province_code)) = 0
    THEN [raised |-> "ValueError", ret |-> NoValue]
    ELSE [raised |-> "",
          ret |-> ReturnedDict(
                      BreakdownLocals(NetIncome(gross_income, total_deductible_expenses),
                                      province_code))]

\* ------------------------------------------------------------------- bounds

\* Inputs lie up to this many half-cents above a whole-dollar anchor.
MaxOffset == 12

\* The finite thresholds of a generated bracket table are among 1..MaxThreshold
\* dollars.
MaxThreshold == 2

\* The credit base of a generated profile is among 0..MaxCredit dollars.
MaxCredit == 1

\* The engine is called with incomes up to this many half-cents below and
\* above every threshold, the credit base and 0.
EngineOffset == 2

\* A caller makes up to this many calls of calculate_tax_breakdown in a row.
MaxCalls == 3

\* --------------------------------------------- calculate_tax_breakdown calls

RegisteredCodes == DOMAIN PROVINCIAL_TAX_BRACKETS

\* Province codes a caller passes: the registered ones, the key 'FEDERAL' of
\* the credit table, the empty string, an unknown code and a registered code
\* in lower case.
ProvinceCodes == RegisteredCodes \cup {"FEDERAL", "", "XX", "on"}

GrossIncomes ==
    { Dollars(d) + o : d \in {0, 3500, 60000, 71300, 81200, 90000, 260000, 1200000},
                       o \in 0..MaxOffset }

DeductibleExpenses == { Dollars(d) + o : d \in {0, 10000, 60000}, o \in {0, 1} }

Init ==
    /\ tax_data = ca_tax_data
    /\ calls = << >>
    /\ profile = NoValue
    /\ fn = "none"
    /\ args = NoValue
    /\ ret = NoValue
    /\ raised = ""

\* A caller invokes calculate_tax_breakdown and receives its record or its
\* exception.
CalculateTaxBreakdown ==
    /\ fn = "none"
    /\ \E g \in GrossIncomes, e \in DeductibleExpenses, p \in ProvinceCodes :
          LET out == calculate_tax_breakdown(g, e, p)
          IN  /\ fn' = "calculate_tax_breakdown"
              /\ args' = [gross_income |-> g, total_deductible_expenses |-> e,
                          province_code |-> p]
              /\ ret' = out.ret
              /\ raised' = out.raised
              /\ tax_data' = TaxDataAfterCall(tax_data, p)
    /\ UNCHANGED <<profile, calls>>

\* The caller starts over: results = None before the next call.
Rerun ==
    /\ fn # "none"
    /\ fn' = "none"
    /\ args' = NoValue
    /\ ret' = NoValue
    /\ raised' = ""
    /\ UNCHANGED <<profile, tax_data, calls>>

Next == CalculateTaxBreakdown \/ Rerun

Spec == Init /\ [][Next]_vars

\* ----------------------------------- calculate_tax_breakdown calls in a row

\* The arguments of the calls made in a row: two gross incomes, two expense
\* totals, two registered codes and an unregistered one.
RepeatedArgs ==
    { [gross_income |-> g, total_deductible_expenses |-> e, province_code |-> p]
      : g \in {Dollars(60000), Dollars(3500) + 10},
        e \in {0, Dollars(10000)},
        p \in {"ON", "QC", "XX"} }

\* A caller invokes calculate_tax_breakdown once more in the same process,
\* keeping what every call so far returned or raised.
CalculateTaxBreakdownAgain ==
    /\ Len(calls) < MaxCalls
    /\ \E a \in RepeatedArgs :
          LET out == calculate_tax_breakdown(a.gross_income,
                                             a.total_deductible_expenses,
                                             a.province_code)
          IN  /\ fn' = "calculate_tax_breakdown"
              /\ args' = a
              /\ ret' = out.ret
              /\ raised' = out.raised
              /\ tax_data' = TaxDataAfterCall(tax_data, a.province_code)
              /\ calls' = Append(calls, [args |-> a, raised |-> out.raised,
                                         ret |-> out.ret])
    /\ UNCHANGED profile

NextCalls == CalculateTaxBreakdownAgain

SpecCalls == Init /\ [][NextCalls]_vars

\* ------------------------------------------------- direct engine calls

\* The rates of the generated bracket tables: 0, 14.5 % and 25 %, in any order.
Rates == {0, 1450, 2500}

\* The elements of a set of integers in increasing order.
RECURSIVE Ascending(_)
Ascending(S) ==
    IF S = {} THEN << >>
    ELSE LET least == CHOOSE x \in S : \A y \in S : x <= y
         IN  <<least>> \o Ascending(S \ {least})

\* Every valid bracket table over the bounds: strictly increasing finite
\* thresholds, then the infinite one, each bracket with a rate of its own.
GeneratedTables ==
    UNION { { [i \in 1..(Cardinality(S) + 1) |->
                  <<IF i <= Cardinality(S) THEN Ascending(S)[i] ELSE Inf, r[i]>>]
              : r \in [1..(Cardinality(S) + 1) -> Rates] }
            : S \in SUBSET (1..MaxThreshold) }

GeneratedProfiles ==
    { [brackets |-> t, bpa_amount |-> c] : t \in GeneratedTables, c \in 0..MaxCredit }

\* The federal table and the thirteen provincial ones, each with its credit.
RegisteredProfiles ==
    { [brackets |-> FEDERAL_TAX_BRACKETS, bpa_amount |-> BASIC_PERSONAL_AMOUNT.FEDERAL] }
    \cup { [brackets |-> PROVINCIAL_TAX_BRACKETS[p], bpa_amount |-> BASIC_PERSONAL_AMOUNT[p]]
           : p \in DOMAIN PROVINCIAL_TAX_BRACKETS }

\* The finite thresholds of a table, in half-cents.
FiniteThresholds(brackets) ==
    { Dollars(brackets[i][1]) : i \in { j \in 1..Len(brackets) : brackets[j][1] # Inf } }

\* The incomes the engine is called with under a profile: around 0, every
\* threshold and the credit base, and on every quarter dollar of the
\* generated tables' range.
Incomes(p) ==
    { m \in { a + o : a \in FiniteThresholds(p.brackets) \cup {0, Dollars(p.bpa_amount)},
                      o \in (0 - EngineOffset)..EngineOffset } : m >= 0 }
    \cup { 50 * k : k \in 0..(4 * (MaxThreshold + 1)) }

InitEngine ==
    /\ tax_data = ca_tax_data
    /\ calls = << >>
    /\ profile \in GeneratedProfiles \cup RegisteredProfiles
    /\ fn = "none"
    /\ args = NoValue
    /\ ret = NoValue
    /\ raised = ""

\* A caller invokes calculate_marginal_tax with the profile's table and credit.
CalculateMarginalTax ==
    /\ \E income \in Incomes(profile) :
          /\ fn' = "calculate_marginal_tax"
          /\ args' = [taxable_income |-> income]
          /\ ret' = calculate_marginal_tax(income, profile.brackets, profile.bpa_amount)
    /\ UNCHANGED <<profile, raised, tax_data, calls>>

\* A caller invokes get_marginal_rate with the profile's table.
GetMarginalRate ==
    /\ \E income \in Incomes(profile) :
          /\ fn' = "get_marginal_rate"
          /\ args' = [income |-> income]
          /\ ret' = get_marginal_rate(income, profile.brackets)
    /\ UNCHANGED <<profile, raised, tax_data, calls>>

NextEngine == CalculateMarginalTax \/ GetMarginalRate

SpecEngine == InitEngine /\ [][NextEngine]_vars

\* Net incomes calculate_cpp_self_employed is called with: around 0, the
\* exemption, the two ceilings and a mid-band income.
NetIncomes ==
    { m \in { Dollars(d) + o : d \in { 0, CPP_DATA.EXEMPTION_AMOUNT, 50000,
                                       CPP_DATA.YMPE_CEILING, CPP_DATA.YAMPE_CEILING },
                               o \in (0 - MaxOffset)..MaxOffset } : m >= 0 }

InitCpp ==
    /\ tax_data = ca_tax_data
    /\ calls = << >>
    /\ profile = NoValue
    /\ fn = "none"
    /\ args = NoValue
    /\ ret = NoValue
    /\ raised = ""

\* A caller invokes calculate_cpp_self_employed.
CalculateCppSelfEmployed ==
    /\ \E net_income \in NetIncomes :
          /\ fn' = "calculate_cpp_self_employed"
          /\ args' = [net_income |-> net_income]
          /\ ret' = calculate_cpp_self_employed(net_income)
    /\ UNCHANGED <<profile, raised, tax_data, calls>>

NextCpp == CalculateCppSelfEmployed

SpecCpp == InitCpp /\ [][NextCpp]_vars

\* ------------------------------------------- claims on the engine functions

\* The part of the income lying in band i of a table (between the previous
\* threshold, 0 for the first band, and the band's own), times the band's
\* rate, summed over bands i, i + 1, ...
RECURSIVE BandSum(_, _, _)
BandSum(income, brackets, i) ==
    IF i > Len(brackets) THEN Exact(0)
    ELSE
        LET lower == IF i = 1 THEN 0 ELSE Dollars(brackets[i - 1][1])
            upper == Dollars(brackets[i][1])
            top == IF upper = Inf THEN income ELSE Min(income, upper)
        IN  ExAdd(MulRate(Max(0, top - lower), brackets[i][2]),
                  BandSum(income, brackets, i + 1))

\* max(0, S - credit * rate of the first bracket), exact, for the latest call.
BandTaxLessCredit ==
    ExMax0(ExSub(BandSum(args.taxable_income, profile.brackets, 1),
                 MulRate(Dollars(profile.bpa_amount), profile.brackets[1][2])))

\* m is a whole number of cents and lies within half a cent of the exact x.
NearestCent(m, x) ==
    /\ m % 2 = 0
    /\ ExLeq(ExSub(x, Exact(1)), Exact(m))
    /\ ExLeq(Exact(m), ExAdd(x, Exact(1)))

\* C1: calculate_marginal_tax returns max(0, S - credit * first rate) rounded
\* to 2 decimals, S being the sum over all bands of the income inside the band
\* times the band's rate: no unit of income is skipped or taxed twice.
C1_BandSumLessCredit ==
    (fn = "calculate_marginal_tax") => NearestCent(ret, BandTaxLessCredit)

\* C1's case: an income above the first threshold of a table of three or more
\* bands, with a credit, was taxed and the tax is positive.
C1_Witness ==
    /\ fn = "calculate_marginal_tax"
    /\ Len(profile.brackets) >= 3
    /\ profile.bpa_amount > 0
    /\ args.taxable_income > Dollars(profile.brackets[2][1])
    /\ ret > 0

\* The rate at which the bracket walk of calculate_marginal_tax taxes the
\* half-cent just above income: the growth of total_tax over that half-cent,
\* in ten-thousandths.
NextUnitRate(income, brackets) ==
    LET growth == ExSub(BracketWalk(brackets, 1, income + 1, 0, Exact(0)),
                        BracketWalk(brackets, 1, income, 0, Exact(0)))
    IN  growth.q * 10000 + growth.f

\* C3 (as claimed): get_marginal_rate reports, for a registered table, the
\* rate at which the next unit of income above the given income is taxed,
\* also when the income equals a threshold.
C3_RateOfNextUnit ==
    (fn = "get_marginal_rate" /\ profile \in RegisteredProfiles) =>
        (ret = NextUnitRate(args.income, profile.brackets))

\* The first bracket whose threshold is >= income (the last one is infinite).
FirstBracketAtOrAbove(income, brackets) ==
    CHOOSE i \in 1..Len(brackets) :
        /\ brackets[i][1] = Inf \/ Dollars(brackets[i][1]) >= income
        /\ \A j \in 1..(i - 1) : Dollars(brackets[j][1]) < income

C7_MarginalTaxMonotone ==
    [][ (/\ fn = "calculate_marginal_tax"
         /\ fn' = "calculate_marginal_tax"
         /\ args.taxable_income <= args'.taxable_income) => (ret <= ret') ]_vars

\* C7's case: a call returned a positive tax for an income above a threshold,
\* under a credit that clamps the tax of lower incomes to 0.
C7_Witness ==
    /\ fn = "calculate_marginal_tax"
    /\ profile.bpa_amount > 0
    /\ profile.brackets[1][2] > 0
    /\ Len(profile.brackets) >= 2
    /\ args.taxable_income > Dollars(profile.brackets[1][1])
    /\ ret > 0

\* C8: calculate_cpp_self_employed is monotone in the net income: of two
\* successive calls, the one with the larger net income returns at least as
\* much, also across the two ceilings.
C8_CppMonotone ==
    [][ (/\ fn = "calculate_cpp_self_employed"
         /\ fn' = "calculate_cpp_self_employed"
         /\ args.net_income <= args'.net_income) => (ret <= ret') ]_vars

\* C8's case: a call with a net income above the tier-2 ceiling returned.
C8_Witness ==
    /\ fn = "calculate_cpp_self_employed"
    /\ args.net_income > Dollars(81200)
    /\ ret > 0

\* C9: the contribution is 0 for every net income up to the exemption (3500)
\* and strictly positive for every net income above it whose tier-1
\* contribution, (net income - 3500) * 0.119 up to the ceiling, is more than
\* half a cent and so survives the rounding.
C9_CppZeroUpToExemption ==
    (fn = "calculate_cpp_self_employed") =>
        /\ (args.net_income <= Dollars(3500)) => (ret = 0)
        /\ (/\ args.net_income > Dollars(3500)
            /\ ~ExLeq(MulRate(Min(args.net_income, Dollars(71300)) - Dollars(3500), 1190),
                      Exact(1)))
               => (ret > 0)

\* C9's case: a net income a few cents above the exemption got a 1-cent
\* contribution.
C9_Witness ==
    /\ fn = "calculate_cpp_self_employed"
    /\ args.net_income > Dollars(3500)
    /\ args.net_income <= Dollars(3500) + 10
    /\ ret = 2

\* ------------------------------------- claims on calculate_tax_breakdown

\* The latest call was calculate_tax_breakdown.
Called == fn = "calculate_tax_breakdown"

\* The latest call was calculate_tax_breakdown and it returned a record.
Returned == Called /\ raised = ""

\* The thirteen jurisdiction codes of the external interface.
ThirteenCodes ==
    {"AB", "BC", "MB", "NB", "NL", "NS", "NT", "NU", "ON", "PE", "QC", "SK", "YT"}

\* C2: calculate_tax_breakdown raises the invalid-jurisdiction error exactly
\* for the province codes that are not among the 13 registered ones ('FEDERAL'
\* and '' included), and when it raises the caller gets no record at all.
C2_InvalidJurisdiction ==
    Called =>
        /\ (raised = "ValueError") <=> (args.province_code \notin ThirteenCodes)
        /\ raised \in {"", "ValueError"}
        /\ (raised # "") => (ret = NoValue)
        /\ (raised = "") => (ret # NoValue)

\* C2's case: the call with the credit table's key 'FEDERAL' raised.
C2_Witness ==
    Called /\ args.province_code = "FEDERAL" /\ raised = "ValueError"

\* C4 (as claimed): net_income, cpp_contribution, cpp_deduction and
\* taxable_income of every returned record are whole numbers of cents.
C4_IntermediatesWholeCents ==
    Returned =>
        /\ ret.net_income % 2 = 0
        /\ ret.cpp_contribution % 2 = 0
        /\ ret.cpp_deduction % 2 = 0
        /\ ret.taxable_income % 2 = 0

\* The fields the data model gives a TaxBreakdown.
DataModelFields ==
    { "gross_income", "total_deductible_expenses", "net_income", "cpp_contribution",
      "cpp_deduction", "taxable_income", "federal_tax", "provincial_tax",
      "total_income_tax", "total_remittance", "take_home_pay", "average_tax_rate",
      "marginal_tax_rate" }

\* C5 (as claimed): for a registered province the call succeeds and the
\* record has every field of the data model, gross income and deductible
\* expenses included.
C5_RecordHasDataModelFields ==
    (Called /\ args.province_code \in ThirteenCodes) =>
        (raised = "" /\ DataModelFields \subseteq DOMAIN ret)

\* C5 (amended): for a registered province the call succeeds and the record
\* has every field of the data model except gross income and deductible
\* expenses, which it does not carry.
C5_RecordFields ==
    (Called /\ args.province_code \in ThirteenCodes) =>
        /\ raised = ""
        /\ (DataModelFields \ {"gross_income", "total_deductible_expenses"})
               \subseteq DOMAIN ret
        /\ DOMAIN ret \cap {"gross_income", "total_deductible_expenses"} = {}

\* C5's case: a call for a registered province with a positive net income
\* returned.
C5_Witness ==
    Returned /\ args.province_code = "ON" /\ ret.net_income > 0

\* C10: when expenses >= gross income and the province is registered, the
\* call returns (no fault) a record whose net income, pension contribution,
\* taxable income, taxes, remittance, take-home pay and average rate are all
\* 0; and in no returned record has the credit made a tax negative.
C10_ZeroNetIncome ==
    /\ (Called /\ args.province_code \in ThirteenCodes
               /\ args.total_deductible_expenses >= args.gross_income) =>
           /\ raised = ""
           /\ ret.net_income = 0
           /\ ret.cpp_contribution = 0
           /\ ret.taxable_income = 0
           /\ ret.federal_tax = 0
           /\ ret.provincial_tax = 0
           /\ ret.total_remittance = 0
           /\ ret.take_home_pay = 0
           /\ ret.average_tax_rate = 0
    /\ Returned => (ret.federal_tax >= 0 /\ ret.provincial_tax >= 0)

\* C10's case: a call whose expenses exceed a positive gross income returned.
C10_Witness ==
    /\ Returned
    /\ args.gross_income > 0
    /\ args.total_deductible_expenses > args.gross_income

\* C11: for non-negative inputs and a registered province, every monetary
\* field of the returned record other than take_home_pay is >= 0.
C11_MonetaryFieldsNonNegative ==
    Returned =>
        \A k \in { "net_income", "cpp_contribution", "cpp_deduction", "taxable_income",
                   "federal_tax", "provincial_tax", "total_income_tax",
                   "total_remittance", "total_tax_paid" } : ret[k] >= 0

\* C11's case: a call returned a record whose taxes, contribution and
\* deduction are all positive.
C11_Witness ==
    /\ Returned
    /\ ret.federal_tax > 0
    /\ ret.provincial_tax > 0
    /\ ret.cpp_contribution > 0
    /\ ret.cpp_deduction > 0

\* C12: calculate_tax_breakdown(60000, 10000, 'ON') returns net_income 50000,
\* cpp_contribution 5533.50, cpp_deduction 2766.75, taxable_income 47233.25
\* and federal_tax 4510.12; its total_remittance is federal_tax +
\* provincial_tax + cpp_contribution, with provincial_tax =
\* round((47233.25 - 12747) * 0.0505, 2).
C12_OntarioScenario ==
    (/\ Called
     /\ args = [gross_income |-> Dollars(60000),
                total_deductible_expenses |-> Dollars(10000),
                province_code |-> "ON"]) =>
        /\ raised = ""
        /\ ret.net_income = Dollars(50000)
        /\ ret.cpp_contribution = Dollars(5533) + 100
        /\ ret.cpp_deduction = Dollars(2766) + 150
        /\ ret.taxable_income = Dollars(47233) + 50
        /\ ret.federal_tax = Dollars(4510) + 24
        /\ ret.provincial_tax =
               Round2(MulRate(Dollars(47233) + 50 - Dollars(12747), 505))
        /\ ret.total_remittance =
               ret.federal_tax + ret.provincial_tax + ret.cpp_contribution

\* C12's case: the call with 60000, 10000 and 'ON' returned.
C12_Witness ==
    /\ Returned
    /\ args = [gross_income |-> Dollars(60000),
               total_deductible_expenses |-> Dollars(10000),
               province_code |-> "ON"]
    /\ ret.provincial_tax > 0

C14_TakeHomeWithinNetIncome ==
    Returned =>
        /\ 0 <= ret.take_home_pay
        /\ ret.take_home_pay <= ret.net_income
        /\ ret.take_home_pay = ret.net_income - ret.total_remittance
        /\ ret.total_remittance =
               ret.federal_tax + ret.provincial_tax + ret.cpp_contribution
        /\ ret.total_remittance = ret.total_tax_paid

\* C14's case: a call with a net income in the top bracket of both tables
\* returned, with both taxes and the contribution positive.
C14_Witness ==
    /\ Returned
    /\ ret.net_income > Dollars(1128858)
    /\ ret.federal_tax > 0
    /\ ret.provincial_tax > 0
    /\ ret.cpp_contribution > 0
    /\ ret.take_home_pay < ret.net_income

====
